---- MODULE Spec2Model ----
(***************************************************************************)
(* Model of museums.py: Navigator.get_sorted_locales and the two private   *)
(* methods it calls.  One query is followed from the search result to the  *)
(* list of (locale, museums) pairs, or to the exception that ends it.      *)
(*                                                                         *)
(* Python values: None is the string None_, a key that a document does not *)
(* have is the string Missing (subscripting it raises KeyError).  A dict   *)
(* is the sequence of its entries in insertion order.  The floats border   *)
(* and select are fractions [num, den]; len/max >= border is compared by   *)
(* cross multiplication and ceil(len*select) by integer division, which    *)
(* agree with the float computation for the values used here.              *)
(***************************************************************************)
EXTENDS Integers, Sequences, FiniteSets, TLC

VARIABLES
    exhibits,     \* list(self.exhibit_service.get_by_name(query))
    store,        \* the museums collection: identifier -> document
    i,            \* position of the for loop over exhibits (1-based)
    museums,      \* the dict built by the aggregator, in insertion order
    lookups,      \* history: identifiers passed to get_by_id, in call order
    pc,           \* "aggregate", "filter", "group", "done", "raised"
    error,        \* "none", or the exception that ended the query
    border,       \* the parameters of __filter_relevant_museums
    select,
    res_museums,  \* what __filter_relevant_museums returned
    limit,        \* the parameter of get_sorted_locales
    result        \* what get_sorted_locales returned

vars == <<exhibits, store, i, museums, lookups, pc, error, border, select,
          res_museums, limit, result>>

----------------------------------------------------------------------------
(* Bounds and input domains *)

MaxExhibits == 3
MaxMuseums == 3
MaxLimit == 3

None_ == "None"
Missing == "<missing>"

MuseumIds == {"m1", "m2"}
RankIds == <<"m1", "m2", "m3", "m4", "m5">>
Title == ("m1" :> "M1") @@ ("m2" :> "M2") @@ ("m3" :> "M3") @@ ("m4" :> "M4")
         @@ ("m5" :> "M5")
ExhibitNames == <<"Vase", "Urn", "Coin", "Mask", "Bowl">>
StoreLocales == {"CityA", "CityB"}
Locales == {"CityA", "CityB", "CityC"}
Counts == {1, 2, 25, 30}

Min(a, b) == IF a <= b THEN a ELSE b

Defective(v) == v \in {None_, Missing}

(* Exhibit documents at position k of the search result: data.museum.code   *)
(* and data.name, each a value, None or missing, at most one of them not a  *)
(* value.                                                                   *)
ExhibitShapes ==
    {e \in [code : MuseumIds \cup {None_, Missing}, name : {"ok", None_, Missing}] :
        e.code \in MuseumIds \/ e.name = "ok"}

ExhibitsOf(shape) ==
    [k \in 1..Len(shape) |->
        [code |-> shape[k].code,
         name |-> IF shape[k].name = "ok" THEN ExhibitNames[k] ELSE shape[k].name]]

(* Museum documents of identifier id: none, or data.general.name and        *)
(* data.general.locale.name, at most one of them not a value.               *)
NoMuseum == [found |-> FALSE, name |-> None_, locale |-> None_]

MuseumDocs(id) ==
    {NoMuseum} \cup
    {d \in [found : {TRUE}, name : {Title[id], None_, Missing},
            locale : StoreLocales \cup {None_, Missing}] :
        \/ d.name = Title[id]
        \/ d.locale = "CityA"}

Stores == {f \in [MuseumIds -> UNION {MuseumDocs(id) : id \in MuseumIds}] :
              \A id \in MuseumIds : f[id] \in MuseumDocs(id)}

Fraction(n, d) == [num |-> n, den |-> d]
DefaultBorder == Fraction(1, 25)
DefaultSelect == Fraction(4, 5)
DefaultLimit == 7

(* (border, select) pairs tried on __filter_relevant_museums; the last one  *)
(* has select outside (0, 1].                                               *)
FilterParams ==
    {<<DefaultBorder, DefaultSelect>>,
     <<Fraction(0, 1), Fraction(1, 1)>>,
     <<Fraction(1, 2), Fraction(1, 2)>>,
     <<Fraction(9, 10), Fraction(1, 5)>>,
     <<DefaultBorder, Fraction(0, 1)>>}

Limits == (0..MaxLimit) \cup {DefaultLimit}

NExhibits(c) == [j \in 1..c |-> "x"]

(* Aggregate mappings of n museums, as the aggregator leaves them: distinct *)
(* keys, name and locale values, at least one exhibit each.                 *)
Aggregates(n) ==
    {[k \in 1..n |-> [id |-> RankIds[k], name |-> Title[RankIds[k]],
                      locale |-> f[k][1], exhibits |-> NExhibits(f[k][2])]] :
        f \in [1..n -> Locales \X Counts]}

----------------------------------------------------------------------------
(* Python built-ins *)

(* sorted(seq, key=...): stable ascending sort; keys[k] is the key of       *)
(* seq[k].                                                                  *)
Rank(keys, k) ==
    1 + Cardinality({j \in 1..Len(keys) :
                        keys[j] < keys[k] \/ (keys[j] = keys[k] /\ j < k)})

sorted(seq, keys) ==
    [p \in 1..Len(seq) |-> seq[CHOOSE k \in 1..Len(seq) : Rank(keys, k) = p]]

reversed(seq) == [p \in 1..Len(seq) |-> seq[Len(seq) + 1 - p]]

(* seq[:n] for n >= 0 *)
Prefix(seq, n) == SubSeq(seq, 1, Min(n, Len(seq)))

(* Variant: rounds len * select down instead of up. *)
FloorMul(n, r) == (n * r.num) \div r.den

(* math.ceil(n * r) *)
CeilMul(n, r) == (n * r.num + r.den - 1) \div r.den

----------------------------------------------------------------------------
(* MuseumsService.get_by_id *)
get_by_id(id) == store[id]

(* dict operations on museums *)
Keys(d) == {d[k].id : k \in 1..Len(d)}
IndexOf(d, id) == CHOOSE k \in 1..Len(d) : d[k].id = id

ExhibitCounts(seq) == [k \in 1..Len(seq) |-> Len(seq[k].exhibits)]

(* Variant: the reversed() of line 139 left out. *)
SortedMuseumsAscending(values) == sorted(values, ExhibitCounts(values))

(* Variant: sorted(..., reverse=True), which keeps ties in input order. *)
SortedMuseumsStable(values) ==
    sorted(values, [k \in 1..Len(values) |-> 0 - Len(values[k].exhibits)])

(* line 139 *)
SortedMuseums(values) == reversed(sorted(values, ExhibitCounts(values)))

(* line 141 *)
RatioFilter(seq, max_exhibits, b) ==
    SelectSeq(seq, LAMBDA m : Len(m.exhibits) * b.den >= b.num * max_exhibits)

(* line 142 *)
SelectTop(seq, s) == Prefix(seq, CeilMul(Len(seq), s))

(* Navigator.__filter_relevant_museums on a non-empty input *)
filter_relevant_museums(values, b, s) ==
    LET sorted_museums == SortedMuseums(values)
        max_exhibits == Len(sorted_museums[1].exhibits)
    IN  SelectTop(RatioFilter(sorted_museums, max_exhibits, b), s)

(* Variant: the museum is put at the front of its locale's list. *)
AddToLocaleFront(locales, museum) ==
    IF \E k \in 1..Len(locales) : locales[k].locale = museum.locale
    THEN LET k == CHOOSE k \in 1..Len(locales) : locales[k].locale = museum.locale
         IN  [locales EXCEPT ![k].museums = <<museum>> \o @]
    ELSE Append(locales, [locale |-> museum.locale, museums |-> <<museum>>])

(* Variant: every museum opens a new entry, as a plain list of pairs would. *)
AddToLocaleNew(locales, museum) ==
    Append(locales, [locale |-> museum.locale, museums |-> <<museum>>])

(* locales[museum['locale']].append(museum) on a defaultdict(list) *)
AddToLocale(locales, museum) ==
    IF \E k \in 1..Len(locales) : locales[k].locale = museum.locale
    THEN LET k == CHOOSE k \in 1..Len(locales) : locales[k].locale = museum.locale
         IN  [locales EXCEPT ![k].museums = Append(@, museum)]
    ELSE Append(locales, [locale |-> museum.locale, museums |-> <<museum>>])

RECURSIVE GroupLoop(_, _, _)
GroupLoop(locales, ms, k) ==
    IF k > Len(ms) THEN locales
    ELSE GroupLoop(AddToLocale(locales, ms[k]), ms, k + 1)

(* line 155 *)
SortedLocales(locales) ==
    reversed(sorted(locales, [k \in 1..Len(locales) |-> Len(locales[k].museums)]))

(* Variant: the slice keeps one location more than limit. *)
LimitLocalesOffByOne(seq, lim) == Prefix(seq, Min(lim + 1, Len(seq)))

(* line 156 *)
LimitLocales(seq, lim) == Prefix(seq, Min(lim, Len(seq)))

(* lines 151-157 of get_sorted_locales: the list of (locale, museums) *)
group_locales(ms, lim) ==
    LET locales == GroupLoop(<<>>, ms, 1)
        kept == LimitLocales(SortedLocales(locales), lim)
    IN  [p \in 1..Len(kept) |-> <<kept[p].locale, kept[p].museums>>]

----------------------------------------------------------------------------
(* The query *)

Idle ==
    /\ i = 1
    /\ museums = <<>>
    /\ lookups = <<>>
    /\ error = "none"
    /\ res_museums = <<>>
    /\ limit = DefaultLimit
    /\ result = <<>>

(* get_sorted_locales(query): the search has returned, the defaults of     *)
(* __filter_relevant_museums apply.                                         *)
Init ==
    /\ \E n \in 0..MaxExhibits : \E shape \in [1..n -> ExhibitShapes] :
          exhibits = ExhibitsOf(shape)
    /\ store \in Stores
    /\ border = DefaultBorder
    /\ select = DefaultSelect
    /\ pc = "aggregate"
    /\ Idle

InLoop == pc = "aggregate" /\ i <= Len(exhibits)

Raise(e) ==
    /\ pc' = "raised"
    /\ error' = e
    /\ UNCHANGED <<exhibits, store, i, museums, border, select, res_museums,
                   limit, result>>

Continue ==
    /\ i' = i + 1
    /\ UNCHANGED <<exhibits, store, pc, error, border, select, res_museums,
                   limit, result>>

(* lines 113-114: the exhibit has no data.museum.code or no data.name *)
ExhibitKeyError ==
    /\ InLoop
    /\ exhibits[i].code = Missing \/ exhibits[i].name = Missing
    /\ Raise("KeyError")
    /\ UNCHANGED lookups

ReadExhibit ==
    /\ InLoop
    /\ exhibits[i].code # Missing
    /\ exhibits[i].name # Missing

ValidExhibit ==
    /\ ReadExhibit
    /\ exhibits[i].code # None_
    /\ exhibits[i].name # None_

(* line 115 false *)
SkipExhibit ==
    /\ ReadExhibit
    /\ exhibits[i].code = None_ \/ exhibits[i].name = None_
    /\ Continue
    /\ UNCHANGED <<museums, lookups>>

(* Variant: the exhibit name is put at the front of the museum's list. *)
AppendExhibitFront ==
    /\ ValidExhibit
    /\ exhibits[i].code \in Keys(museums)
    /\ museums' = [museums EXCEPT ![IndexOf(museums, exhibits[i].code)].exhibits =
                      <<exhibits[i].name>> \o @]
    /\ Continue
    /\ UNCHANGED lookups

(* lines 116-117 *)
AppendExhibit ==
    /\ ValidExhibit
    /\ exhibits[i].code \in Keys(museums)
    /\ museums' = [museums EXCEPT ![IndexOf(museums, exhibits[i].code)].exhibits =
                      Append(@, exhibits[i].name)]
    /\ Continue
    /\ UNCHANGED lookups

Lookup ==
    /\ ValidExhibit
    /\ exhibits[i].code \notin Keys(museums)
    /\ lookups' = Append(lookups, exhibits[i].code)

(* lines 119-120: get_by_id returns None *)
MuseumNotFound ==
    /\ Lookup
    /\ ~get_by_id(exhibits[i].code).found
    /\ Continue
    /\ UNCHANGED museums

(* lines 121-122: the museum has no locale name or no name *)
MuseumKeyError ==
    /\ Lookup
    /\ LET museum == get_by_id(exhibits[i].code)
       IN  /\ museum.found
           /\ museum.locale = Missing \/ museum.name = Missing
    /\ Raise("KeyError")

(* line 123 false *)
MuseumIncomplete ==
    /\ Lookup
    /\ LET museum == get_by_id(exhibits[i].code)
       IN  /\ museum.found
           /\ museum.locale # Missing /\ museum.name # Missing
           /\ museum.locale = None_ \/ museum.name = None_
    /\ Continue
    /\ UNCHANGED museums

(* lines 124-127 *)
CreateAggregate ==
    /\ Lookup
    /\ LET museum == get_by_id(exhibits[i].code)
       IN  /\ museum.found
           /\ ~Defective(museum.locale) /\ ~Defective(museum.name)
           /\ museums' = Append(museums,
                  [id |-> exhibits[i].code, name |-> museum.name,
                   locale |-> museum.locale, exhibits |-> <<exhibits[i].name>>])
    /\ Continue

(* line 128 *)
ReturnMuseums ==
    /\ pc = "aggregate"
    /\ i > Len(exhibits)
    /\ pc' = "filter"
    /\ UNCHANGED <<exhibits, store, i, museums, lookups, error, border, select,
                   res_museums, limit, result>>

(* line 140 on an empty list *)
FilterIndexError ==
    /\ pc = "filter"
    /\ museums = <<>>
    /\ Raise("IndexError")
    /\ UNCHANGED lookups

(* lines 139-142 *)
FilterRelevant ==
    /\ pc = "filter"
    /\ museums # <<>>
    /\ res_museums' = filter_relevant_museums(museums, border, select)
    /\ pc' = "group"
    /\ UNCHANGED <<exhibits, store, i, museums, lookups, error, border, select,
                   limit, result>>

(* lines 151-157 *)
GroupLocales ==
    /\ pc = "group"
    /\ \E lim \in Limits :
          /\ limit' = lim
          /\ result' = group_locales(res_museums, lim)
    /\ pc' = "done"
    /\ UNCHANGED <<exhibits, store, i, museums, lookups, error, border, select,
                   res_museums>>

Next ==
    \/ ExhibitKeyError
    \/ SkipExhibit
    \/ AppendExhibit
    \/ MuseumNotFound
    \/ MuseumKeyError
    \/ MuseumIncomplete
    \/ CreateAggregate
    \/ ReturnMuseums
    \/ FilterIndexError
    \/ FilterRelevant
    \/ GroupLocales

Spec == Init /\ [][Next]_vars

(* __filter_relevant_museums(museums, border, select) and the grouping of   *)
(* its result, on any aggregate mapping.                                    *)
InitRank ==
    /\ \E n \in 0..MaxMuseums : museums \in Aggregates(n)
    /\ \E p \in FilterParams : border = p[1] /\ select = p[2]
    /\ exhibits = <<>>
    /\ store = [id \in MuseumIds |-> NoMuseum]
    /\ pc = "filter"
    /\ i = 1
    /\ lookups = <<>>
    /\ error = "none"
    /\ res_museums = <<>>
    /\ limit = DefaultLimit
    /\ result = <<>>

NextRank ==
    \/ FilterIndexError
    \/ FilterRelevant
    \/ GroupLocales

SpecRank == InitRank /\ [][NextRank]_vars

----------------------------------------------------------------------------
(* Properties *)

AggregatorReturned ==
    \/ pc \in {"filter", "group", "done"}
    \/ pc = "raised" /\ error = "IndexError"

FilterReturned == pc \in {"group", "done"}

ValidDoc(e) == ~Defective(e.code) /\ ~Defective(e.name)

Resolvable(id) ==
    /\ store[id].found
    /\ ~Defective(store[id].name)
    /\ ~Defective(store[id].locale)

(* The names of the valid exhibits of museum id, in search-result order. *)
NamesFor(id) ==
    LET sel == SelectSeq(exhibits, LAMBDA e : ValidDoc(e) /\ e.code = id)
    IN  [k \in 1..Len(sel) |-> sel[k].name]

Count(m) == Len(m.exhibits)

MaxCount(seq) ==
    CHOOSE c \in {Count(seq[k]) : k \in 1..Len(seq)} :
        \A k \in 1..Len(seq) : Count(seq[k]) <= c

Ids(seq) == {seq[k].id : k \in 1..Len(seq)}

Descending(seq) ==
    \A p, q \in 1..Len(seq) : p < q => Count(seq[p]) >= Count(seq[q])

InRange ==
    /\ 0 <= border.num /\ border.num < border.den
    /\ 0 < select.num /\ select.num <= select.den

(* Museums of the filtered list that passed the ratio test, by position in  *)
(* the input.                                                               *)
Survivors ==
    {k \in 1..Len(museums) :
        Count(museums[k]) * border.den >= border.num * MaxCount(museums)}

(* The least integer n with n >= k * select. *)
CeilOf(k) ==
    CHOOSE n \in 0..(k * select.num + 1) :
        /\ n * select.den >= k * select.num
        /\ (n - 1) * select.den < k * select.num

ResultLocales == {result[p][1] : p \in 1..Len(result)}
FilteredLocales == {res_museums[k].locale : k \in 1..Len(res_museums)}
MuseumsIn(l) == {k \in 1..Len(res_museums) : res_museums[k].locale = l}

(* C1: when the aggregator returns an empty mapping, get_sorted_locales     *)
(* raises nothing and returns an empty list of location groups.             *)
C1_EmptyPropagates ==
    (AggregatorReturned /\ museums = <<>>) =>
        /\ error = "none"
        /\ pc = "done" => result = <<>>

(* C2: within one aggregator run get_by_id is called at most once for each  *)
(* museum identifier, also when the identifier resolves to no museum or to  *)
(* a museum with a null name or locale.                                     *)
C2_OneLookupPerId ==
    \A id \in MuseumIds :
        Cardinality({k \in 1..Len(lookups) : lookups[k] = id}) <= 1

(* C3: the mapping the aggregator returns has exactly one entry for each    *)
(* identifier that a valid exhibit references and that resolves to a museum *)
(* with name and locale, and no other entry; an entry's exhibit names are   *)
(* the names of all valid exhibits of that identifier, in search-result     *)
(* order, hence never empty.                                                *)
C3_AggregateExact ==
    AggregatorReturned =>
        /\ Keys(museums) = {id \in MuseumIds : Resolvable(id) /\ NamesFor(id) # <<>>}
        /\ Cardinality(Keys(museums)) = Len(museums)
        /\ \A k \in 1..Len(museums) :
              /\ museums[k].exhibits = NamesFor(museums[k].id)
              /\ museums[k].exhibits # <<>>
              /\ museums[k].name = store[museums[k].id].name
              /\ museums[k].locale = store[museums[k].id].locale

C3_Witness ==
    /\ AggregatorReturned
    /\ Len(exhibits) = 3
    /\ Len(museums) = 1
    /\ Len(museums[1].exhibits) = 2

(* C4: an exhibit with a null or absent museum code or name, an exhibit     *)
(* whose museum is not found, and an exhibit whose museum has a null or     *)
(* absent name or locale are skipped: the aggregator raises nothing, makes  *)
(* no aggregate for them and handles every other exhibit as it would        *)
(* without them.                                                            *)
C4_SilentSkip ==
    /\ error # "KeyError"
    /\ \A k \in 1..Len(museums) :
          /\ Resolvable(museums[k].id)
          /\ \A n \in 1..Len(museums[k].exhibits) :
                \E j \in 1..Len(exhibits) :
                    /\ ValidDoc(exhibits[j])
                    /\ exhibits[j].code = museums[k].id
                    /\ exhibits[j].name = museums[k].exhibits[n]
    /\ pc # "aggregate" =>
          \A j \in 1..Len(exhibits) :
              (ValidDoc(exhibits[j]) /\ Resolvable(exhibits[j].code)) =>
                  \E k \in 1..Len(museums) :
                      /\ museums[k].id = exhibits[j].code
                      /\ \E n \in 1..Len(museums[k].exhibits) :
                            museums[k].exhibits[n] = exhibits[j].name

(* C5: for a non-empty input, border in [0,1) and select in (0,1], the      *)
(* result of __filter_relevant_museums is in descending order of exhibit    *)
(* count, is no longer than the input, and starts with a museum of the      *)
(* input that has the maximum exhibit count.                                *)
C5_FilterSortedTopKept ==
    (FilterReturned /\ InRange) =>
        /\ Descending(res_museums)
        /\ Len(res_museums) <= Len(museums)
        /\ res_museums # <<>>
        /\ \E k \in 1..Len(museums) : res_museums[1] = museums[k]
        /\ Count(res_museums[1]) = MaxCount(museums)

C5_Witness ==
    /\ FilterReturned
    /\ InRange
    /\ Len(museums) = 3
    /\ Len(res_museums) = 2
    /\ Count(museums[1]) < Count(museums[3])

(* C6: __filter_relevant_museums returns the first ceil(k * select) museums *)
(* of the descending order of the k museums whose exhibit count divided by  *)
(* the maximum count is at least border; with the defaults a museum with 1  *)
(* exhibit is pruned against a top museum with 30 and passes the ratio test *)
(* against a top museum with 25.                                            *)
C6_FilterExact ==
    FilterReturned =>
        LET k == Cardinality(Survivors)
        IN  /\ Len(res_museums) = Min(CeilOf(k), k)
            /\ Descending(res_museums)
            /\ \A p \in 1..Len(res_museums) :
                  \E j \in Survivors : res_museums[p] = museums[j]
            /\ Cardinality(Ids(res_museums)) = Len(res_museums)
            /\ \A j \in Survivors :
                  museums[j].id \notin Ids(res_museums) =>
                      \A p \in 1..Len(res_museums) :
                          Count(res_museums[p]) >= Count(museums[j])
            /\ (border = DefaultBorder /\ MaxCount(museums) = 30) =>
                  \A p \in 1..Len(res_museums) : Count(res_museums[p]) # 1
            /\ (border = DefaultBorder /\ MaxCount(museums) = 25) =>
                  /\ \A j \in 1..Len(museums) : j \in Survivors
                  /\ (select = DefaultSelect /\ Len(museums) = 2) =>
                        Ids(res_museums) = Ids(museums)

C6_Witness ==
    /\ FilterReturned
    /\ border = DefaultBorder
    /\ select = DefaultSelect
    /\ Len(museums) = 3
    /\ {Count(museums[k]) : k \in 1..3} = {1, 25, 30}
    /\ Len(res_museums) = 2

(* C7: for every limit >= 0 the list get_sorted_locales returns has         *)
(* min(limit, number of distinct locations) entries, its groups are in      *)
(* descending order of their number of museums, and no dropped location has *)
(* more museums than a retained one.                                        *)
C7_LimitAndOrder ==
    pc = "done" =>
        /\ Len(result) = Min(limit, Cardinality(FilteredLocales))
        /\ Len(result) <= limit
        /\ \A p, q \in 1..Len(result) :
              p < q => Len(result[p][2]) >= Len(result[q][2])
        /\ \A p \in 1..Len(result) :
              \A l \in FilteredLocales \ ResultLocales :
                  Cardinality(MuseumsIn(result[p][1])) >= Cardinality(MuseumsIn(l))

C7_Witness ==
    /\ pc = "done"
    /\ limit = 1
    /\ Cardinality(FilteredLocales) = 2
    /\ Len(result) = 1
    /\ Len(result[1][2]) = 2

(* C8 as claimed: museums with equal exhibit counts keep, in the result of  *)
(* __filter_relevant_museums, the relative order they have in the input.    *)
C8_TiesKeepInputOrder ==
    FilterReturned =>
        \A p, q \in 1..Len(res_museums) :
            (p < q /\ Count(res_museums[p]) = Count(res_museums[q])) =>
                IndexOf(museums, res_museums[p].id) < IndexOf(museums, res_museums[q].id)

(* C8 amended: museums with equal exhibit counts appear, in the result of   *)
(* __filter_relevant_museums, in the reverse of the relative order they     *)
(* have in the input.                                                       *)
C8_TiesReverseInputOrder ==
    FilterReturned =>
        \A p, q \in 1..Len(res_museums) :
            (p < q /\ Count(res_museums[p]) = Count(res_museums[q])) =>
                IndexOf(museums, res_museums[p].id) > IndexOf(museums, res_museums[q].id)

C8_Witness ==
    /\ FilterReturned
    /\ Len(res_museums) = 3
    /\ Count(res_museums[1]) = Count(res_museums[2])
    /\ Count(res_museums[2]) = Count(res_museums[3])

(* C9: within every group get_sorted_locales returns, the museums are in    *)
(* the relative order they have in the result of the filter, and so in      *)
(* descending order of exhibit count.                                       *)
C9_GroupKeepsRanking ==
    pc = "done" =>
        \A p \in 1..Len(result) :
            /\ Descending(result[p][2])
            /\ \A a, b \in 1..Len(result[p][2]) :
                  a < b => IndexOf(res_museums, result[p][2][a].id)
                               < IndexOf(res_museums, result[p][2][b].id)

C9_Witness ==
    /\ pc = "done"
    /\ \E p \in 1..Len(result) :
          /\ Len(result[p][2]) = 2
          /\ result[p][2][1].name = "M1"
          /\ result[p][2][2].name = "M2"
          /\ Count(result[p][2][1]) = 2
          /\ Count(result[p][2][2]) = 1

(* C10: the groups get_sorted_locales returns have pairwise distinct        *)
(* location names, none is empty, every museum of a group has the group's   *)
(* location, every museum of a group comes from the filter's result, and    *)
(* every filtered museum of a retained location is in the output exactly    *)
(* once.                                                                    *)
C10_Partition ==
    pc = "done" =>
        /\ \A p, q \in 1..Len(result) : p # q => result[p][1] # result[q][1]
        /\ \A p \in 1..Len(result) :
              /\ result[p][2] # <<>>
              /\ \A a \in 1..Len(result[p][2]) :
                    /\ result[p][2][a].locale = result[p][1]
                    /\ \E k \in 1..Len(res_museums) : res_museums[k] = result[p][2][a]
        /\ \A k \in 1..Len(res_museums) :
              res_museums[k].locale \in ResultLocales =>
                  Cardinality({pa \in {<<p, a>> : p \in 1..Len(result) , a \in 1..MaxMuseums + 1} :
                                 /\ pa[2] <= Len(result[pa[1]][2])
                                 /\ result[pa[1]][2][pa[2]] = res_museums[k]}) = 1

C10_Witness ==
    /\ pc = "done"
    /\ Len(result) = 1
    /\ Cardinality(FilteredLocales) = 2
    /\ Len(result[1][2]) = 2
    /\ Len(res_museums) = 3

====
